---------------------------- MODULE Spec2Model ----------------------------
(***************************************************************************)
(* A model of pyBASEX (src/abel/basex.py and the legacy src/BASEX/core.py). *)
(*                                                                         *)
(*   Spec   the disk cache of basis sets: get_basis_sets_cached, step by   *)
(*          step, and the legacy BASEX.__init__ that shares its files.     *)
(*   SpecGen        generate_basis_sets, statement by statement.           *)
(*   SpecTransform  basex_transform on a heap of arrays.                   *)
(*                                                                         *)
(* Matrices of the cache are named values: Mat("M", n, nbf) is the array   *)
(* that generate_basis_sets(n, nbf) returns as M.  A file is the sequence  *)
(* of objects np.save wrote to it; np.load gives that sequence back and    *)
(* the tuple assignment of the caller takes it apart by position.          *)
(***************************************************************************)
EXTENDS Integers, Sequences, FiniteSets, TLC

\* Largest n (image size) and largest explicit nbf a caller passes.
MaxN == 3
MaxNbf == 2
\* Largest n passed to generate_basis_sets in SpecGen.
GenMaxN == 7
\* basex_transform in SpecTransform: images of TSize x TSize pixels with values
\* in 0..MaxPix, bundles of TNbf basis functions numbered 0..MaxSeed, dr in
\* -1..MaxDr.
TSize == 2
TNbf == 1
MaxPix == 2
MaxSeed == 2
MaxDr == 2
\* One pass of the loop body of generate_basis_sets in SpecSeries: k in
\* 1..SerMaxK, l in 1..SerMaxL.
SerMaxK == 252
SerMaxL == 66
\* The arguments of exp in one pass of the loop body, in SpecNumeric: k in
\* 1..NumMaxK, l in 1..NumMaxL.
NumMaxK == 65
NumMaxL == 66

Procs == {"p1", "p2"}
Sizes == 1..MaxN
\* nbf as passed by the caller: 'auto' or a number.
NbfArgs == {[auto |-> TRUE, v |-> 0]} \cup {[auto |-> FALSE, v |-> k] : k \in 1..MaxNbf}
\* basis_dir: None or a directory.
Dirs == {"None", "dir"}

Max(a, b) == IF a >= b THEN a ELSE b
Min(a, b) == IF a <= b THEN a ELSE b

-----------------------------------------------------------------------------
(* Values *)

Mat(name, n, nbf) == [name |-> name, n |-> n, nbf |-> nbf]
None == Mat("None", 0, 0)
\* np.array(__version__), the fifth object of a file in the current format
VersionTag == Mat("version", 0, 0)

\* "basex_basis_{}_{}.npy".format(n, nbf): distinct (n, nbf) give distinct names
basis_name(n, nbf) == <<n, nbf>>
\* BASEX.__init__ of the legacy module rounds n up to an odd number
Keys == {basis_name(n, nbf) : n \in 1..(MaxN + 1), nbf \in 0..Max(MaxNbf, MaxN \div 2)}

NoFile == [kind |-> "absent", elems |-> <<>>]
Npy(elems) == [kind |-> "npy", elems |-> elems]
\* a path np.load cannot open or interpret (a directory, no read permission)
Unreadable == [kind |-> "unreadable", elems |-> <<>>]
\* a file whose .npy header np.load rejects
BadHeader == [kind |-> "badheader", elems |-> <<>>]
\* a file np.save has opened for writing and not yet filled
Partial == [kind |-> "partial", elems |-> <<>>]

\* os.path.exists(path_to_basis_file)
path_exists(d, key) == d[key].kind # "absent"

\* The exceptions np.load(path) can end with on this file ("none": it returns).
np_load_excs(file) ==
    CASE file.kind = "npy" -> {"none"}
      [] file.kind = "badheader" -> {"ValueError"}
      [] file.kind = "partial" -> {"IOError", "ValueError"}
      [] OTHER -> {"IOError"}

\* (a bare `except:` in its place)
CaughtByExcept_bare(e) == TRUE
\* `except ValueError:` of the current-format load
CaughtByExceptValueError(e) == e = "ValueError"

\* (`except: pass` in its place)
LegacyExcept_swallows(e) == FALSE
\* `except: raise` around the legacy load: every exception goes on to the caller
LegacyExceptReraises(e) == TRUE

\* M, Mc, M_left, M_right, M_version = np.load(...): ValueError unless 5 objects
UnpackCurrentFits(elems) == Len(elems) = 5
\* (M and Mc taken in the wrong order)
UnpackCurrent_McFirst(elems) ==
    [M |-> elems[2], Mc |-> elems[1], M_left |-> elems[3], M_right |-> elems[4]]
UnpackCurrent(elems) ==
    [M |-> elems[1], Mc |-> elems[2], M_left |-> elems[3], M_right |-> elems[4]]

\* M_left, M_right, M, Mc = np.load(...): ValueError unless 4 objects
UnpackLegacyFits(elems) == Len(elems) = 4
\* (the legacy file taken apart in the order of the current format)
UnpackLegacy_asCurrent(elems) ==
    [M |-> elems[1], Mc |-> elems[2], M_left |-> elems[3], M_right |-> elems[4]]
UnpackLegacy(elems) ==
    [M |-> elems[3], Mc |-> elems[4], M_left |-> elems[1], M_right |-> elems[2]]

\* (the tuple saved in the order of the legacy format)
SaveTuple_legacyOrder(b) == <<b.M_left, b.M_right, b.M, b.Mc, VersionTag>>
\* np.save(path, (M, Mc, M_left, M_right, np.array(__version__)))
SaveTuple(b) == <<b.M, b.Mc, b.M_left, b.M_right, VersionTag>>

\* np.save(path_to_basis_file, (left, right, M, Mc)) of the legacy module
LegacySaveTuple(b) == <<b.M_left, b.M_right, b.M, b.Mc>>

\* _nbf_default(n, nbf)
nbf_default(n, a) == IF a.auto THEN n \div 2 ELSE a.v

\* (the checks left out)
GenRejectsEven_never(n) == FALSE
GenRejectsNbf_never(n, nbf) == FALSE
\* generate_basis_sets: the two checks that raise ValueError
GenRejectsEven(n) == n % 2 = 0
GenRejectsNbf(n, nbf) == n \div 2 < nbf

\* generate_basis_sets(n, nbf) as get_basis_sets_cached sees it: the exception
\* it ends with, or the pair (M, Mc).  With nbf = 0 (n = 1, 'auto') the
\* assignment M[:,0] = ... indexes a matrix without columns.
generate_basis_sets(n, nbf) ==
    IF GenRejectsEven(n) THEN [exc |-> "ValueError", M |-> None, Mc |-> None]
    ELSE IF GenRejectsNbf(n, nbf) THEN [exc |-> "ValueError", M |-> None, Mc |-> None]
    ELSE IF nbf = 0 THEN [exc |-> "IndexError", M |-> None, Mc |-> None]
    ELSE [exc |-> "none", M |-> Mat("M", n, nbf), Mc |-> Mat("Mc", n, nbf)]

\* _get_left_right_matrices(M, Mc): M_left from Mc, M_right from M
get_left_right_matrices(M, Mc) ==
    [M_left |-> Mat("M_left", Mc.n, Mc.nbf), M_right |-> Mat("M_right", M.n, M.nbf)]

\* (the test left out: always synthesize)
NeedsSynthesis_always(M) == TRUE
\* `if M is None:`
NeedsSynthesis(M) == M = None

NoBundle == [M |-> None, Mc |-> None, M_left |-> None, M_right |-> None]

\* the locals of basex_transform when no call is under way
TrIdleLocals ==
    [pc |-> "idle", call |-> 0, rawdata |-> 0, M |-> 0, Mc |-> 0, M_left |-> 0,
     M_right |-> 0, dr |-> 1, Ci |-> 0, IM |-> 0, ret |-> 0, exc |-> "none",
     snap |-> <<>>, unscaled |-> <<>>, a |-> 1, first |-> <<>>]

\* no tasks started
ParIdle ==
    [pc |-> "idle", n |-> 0, nbf |-> 0, Rm |-> 0, M |-> <<>>, Mc |-> <<>>,
     at |-> <<>>, order |-> <<>>, reads |-> {}, writes |-> {},
     seqM |-> <<>>, seqMc |-> <<>>]

\* no pass of the loop body looked at
SerIdle ==
    [pc |-> "idle", n |-> 0, Rm |-> 0, k |-> 0, l |-> 0,
     p |-> [start |-> 0, stop |-> 0], McRows |-> {}, MRows |-> {}, col |-> 0,
     read |-> <<0, 0>>, aux |-> [factor |-> 0, closed |-> <<>>, nterms |-> 0]]

\* the locals of generate_basis_sets when no call is under way
GenIdleLocals ==
    [pc |-> "idle", n |-> 0, a |-> [auto |-> TRUE, v |-> 0], nbf |-> 0, Rm |-> 0,
     alloc |-> FALSE, M |-> <<>>, Mc |-> <<>>, k |-> 0, l |-> 0, exc |-> "none"]


-----------------------------------------------------------------------------
(* State of the cache *)

VARIABLES
    disk,   \* basis_dir: file name -> file
    pc,     \* per process: where its call of get_basis_sets_cached stands
    frame,  \* per process: the locals of that call
    last,   \* the operation that completed last, as its caller saw it
    gen,    \* the call of generate_basis_sets under way: its locals
    heap,   \* the arrays allocated so far; a reference is an index
    tr,     \* the call of basex_transform under way: its locals
    ser,    \* one pass of the loop body of generate_basis_sets: what it did
    par     \* the columns of M and Mc computed as separate tasks

cacheVars == <<disk, pc, frame, last>>
genVars == <<gen>>
trVars == <<heap, tr>>
serVars == <<ser>>
parVars == <<par>>
vars == <<disk, pc, frame, last, gen, heap, tr, ser, par>>

NoOp ==
    [op |-> "none", proc |-> "none", n |-> 0, nbf |-> 0, dir |-> "None",
     key |-> <<0, 0>>, existed |-> FALSE, tried |-> <<>>, synth |-> 0,
     built |-> 0, outcome |-> "none", ret |-> NoBundle,
     disk0 |-> <<>>, disk1 |-> <<>>, prevSame |-> <<>>, other |-> <<>>]

IdleFrame ==
    [n |-> 0, nbf |-> 0, dir |-> "None", key |-> <<0, 0>>, existed |-> FALSE,
     tried |-> <<>>, synth |-> 0, built |-> 0, b |-> NoBundle,
     disk0 |-> <<>>, prevSame |-> <<>>]

EmptyDisk == [k \in Keys |-> NoFile]

\* A file of three objects: neither encoding fits it.
ThreeObjects(n, nbf) == Npy(<<Mat("M", n, nbf), Mat("Mc", n, nbf), Mat("M_left", n, nbf)>>)

\* Files that no code of the repository wrote
ForeignFiles(n, nbf) == {Unreadable, BadHeader, ThreeObjects(n, nbf)}

\* The directory when the program starts: empty, or holding one foreign file
\* under the name of some (n, n//2).
InitDisks ==
    {EmptyDisk} \cup
    UNION {{[EmptyDisk EXCEPT ![basis_name(n, n \div 2)] = f] :
                f \in ForeignFiles(n, n \div 2)} : n \in Sizes}

CacheInit ==
    /\ disk \in InitDisks
    /\ pc = [p \in Procs |-> "idle"]
    /\ frame = [p \in Procs |-> IdleFrame]
    /\ last = NoOp

\* The call of process p ends: with the exception `outcome` or, for "ok",
\* returning the bundle ret.  d is the directory as the call leaves it.
\* `other` keeps what the call that ended just before gave its caller, when
\* that was a call of another process for the same file.
Complete(p, f, outcome, ret, d) ==
    /\ last' = [op |-> "get", proc |-> p, n |-> f.n, nbf |-> f.nbf, dir |-> f.dir,
                key |-> f.key, existed |-> f.existed, tried |-> f.tried,
                synth |-> f.synth, built |-> f.built, outcome |-> outcome,
                ret |-> ret, disk0 |-> f.disk0, disk1 |-> d,
                prevSame |-> f.prevSame,
                other |-> IF /\ last.op = "get" /\ last.proc # p
                             /\ last.key = f.key /\ last.dir = f.dir
                          THEN <<[last EXCEPT !.prevSame = <<>>, !.other = <<>>]>>
                          ELSE <<>>]
    /\ pc' = [pc EXCEPT ![p] = "idle"]
    /\ frame' = [frame EXCEPT ![p] = IdleFrame]

\* get_basis_sets_cached(n, nbf, basis_dir) up to os.path.exists
Get_Call(p, n, a, d) ==
    /\ pc[p] = "idle"
    /\ LET nbf == nbf_default(n, a)
           key == basis_name(n, nbf)
           ex  == d # "None" /\ path_exists(disk, key)
           f   == [IdleFrame EXCEPT !.n = n, !.nbf = nbf, !.dir = d, !.key = key,
                       !.existed = ex, !.disk0 = disk,
                       !.prevSame = IF last.op = "get" /\ last.key = key /\ last.dir = d
                                    THEN <<[last EXCEPT !.prevSame = <<>>]>>
                                    ELSE <<>>]
       IN /\ frame' = [frame EXCEPT ![p] = f]
          /\ pc' = [pc EXCEPT ![p] = IF ex THEN "load"
                                     ELSE IF NeedsSynthesis(f.b.M) THEN "generate"
                                     ELSE "return"]
    /\ UNCHANGED <<disk, last>>
    /\ UNCHANGED <<genVars, trVars, serVars, parVars>>

\* try: M, Mc, M_left, M_right, M_version = np.load(path_to_basis_file)
Get_Load(p) ==
    /\ pc[p] = "load"
    /\ LET f    == [frame[p] EXCEPT !.tried = Append(@, "current")]
           file == disk[f.key]
       IN \E e \in np_load_excs(file) :
            LET raised == IF e # "none" THEN e
                          ELSE IF UnpackCurrentFits(file.elems) THEN "none"
                          ELSE "ValueError"
            IN IF raised = "none"
               THEN LET g == [f EXCEPT !.b = UnpackCurrent(file.elems)]
                    IN IF NeedsSynthesis(g.b.M)
                       THEN /\ frame' = [frame EXCEPT ![p] = g]
                            /\ pc' = [pc EXCEPT ![p] = "generate"]
                            /\ UNCHANGED last
                       ELSE Complete(p, g, "ok", g.b, disk)
               ELSE IF CaughtByExceptValueError(raised)
               THEN /\ frame' = [frame EXCEPT ![p] = f]
                    /\ pc' = [pc EXCEPT ![p] = "legacy"]
                    /\ UNCHANGED last
               ELSE Complete(p, f, raised, NoBundle, disk)
    /\ UNCHANGED disk
    /\ UNCHANGED <<genVars, trVars, serVars, parVars>>

\* except ValueError: try: M_left, M_right, M, Mc = np.load(...) except: raise
Get_LoadLegacy(p) ==
    /\ pc[p] = "legacy"
    /\ LET f    == [frame[p] EXCEPT !.tried = Append(@, "legacy")]
           file == disk[f.key]
       IN \E e \in np_load_excs(file) :
            LET raised == IF e # "none" THEN e
                          ELSE IF UnpackLegacyFits(file.elems) THEN "none"
                          ELSE "ValueError"
            IN IF raised = "none"
               THEN LET g == [f EXCEPT !.b = UnpackLegacy(file.elems)]
                    IN IF NeedsSynthesis(g.b.M)
                       THEN /\ frame' = [frame EXCEPT ![p] = g]
                            /\ pc' = [pc EXCEPT ![p] = "generate"]
                            /\ UNCHANGED last
                       ELSE Complete(p, g, "ok", g.b, disk)
               ELSE IF LegacyExceptReraises(raised)
               THEN Complete(p, f, raised, NoBundle, disk)
               ELSE /\ frame' = [frame EXCEPT ![p] = f]
                    /\ pc' = [pc EXCEPT ![p] = IF NeedsSynthesis(f.b.M) THEN "generate"
                                               ELSE "return"]
                    /\ UNCHANGED last
    /\ UNCHANGED disk
    /\ UNCHANGED <<genVars, trVars, serVars, parVars>>

\* M, Mc = generate_basis_sets(n, nbf); M_left, M_right =
\* _get_left_right_matrices(M, Mc).  numpy.linalg.inv raises LinAlgError on a
\* singular matrix; the entries are not modelled, so whether it does is open.
Get_Generate(p) ==
    /\ pc[p] = "generate"
    /\ LET f == [frame[p] EXCEPT !.synth = @ + 1]
           r == generate_basis_sets(f.n, f.nbf)
       IN IF r.exc # "none"
          THEN Complete(p, f, r.exc, NoBundle, disk)
          ELSE \E singular \in BOOLEAN :
                 LET g  == [f EXCEPT !.built = @ + 1]
                     lr == get_left_right_matrices(r.M, r.Mc)
                     h  == [g EXCEPT !.b = [M |-> r.M, Mc |-> r.Mc,
                                            M_left |-> lr.M_left, M_right |-> lr.M_right]]
                 IN IF singular
                    THEN Complete(p, g, "LinAlgError", NoBundle, disk)
                    ELSE IF h.dir # "None"
                    THEN /\ frame' = [frame EXCEPT ![p] = h]
                         /\ pc' = [pc EXCEPT ![p] = "save"]
                         /\ UNCHANGED last
                    ELSE Complete(p, h, "ok", h.b, disk)
    /\ UNCHANGED disk
    /\ UNCHANGED <<genVars, trVars, serVars, parVars>>

\* np.save(path_to_basis_file, ...) opens the file for writing
Get_SaveOpen(p) ==
    /\ pc[p] = "save"
    /\ disk' = [disk EXCEPT ![frame[p].key] = Partial]
    /\ pc' = [pc EXCEPT ![p] = "write"]
    /\ UNCHANGED <<frame, last>>
    /\ UNCHANGED <<genVars, trVars, serVars, parVars>>

\* np.save writes the five objects and closes the file; return M, Mc, M_left, M_right
Get_SaveWrite(p) ==
    /\ pc[p] = "write"
    /\ disk' = [disk EXCEPT ![frame[p].key] = Npy(SaveTuple(frame[p].b))]
    /\ Complete(p, frame[p], "ok", frame[p].b, disk')
    /\ UNCHANGED <<genVars, trVars, serVars, parVars>>

\* generate_basis_sets of the legacy module (BASEX/basis.py, the same algorithm)
LegacyGenerate(n, nbf) == generate_basis_sets(n, nbf)

\* BASEX.__init__ of the legacy module: load the file (left, right, M, Mc) or
\* generate the basis sets and save them in that order.
LegacyInit(n0, nbf) ==
    /\ \A p \in Procs : pc[p] = "idle"
    /\ LET n    == 2 * (n0 \div 2) + 1
           key  == basis_name(n, nbf)
           ex   == path_exists(disk, key)
           file == disk[key]
           rec  == [NoOp EXCEPT !.op = "legacy", !.proc = "legacy", !.n = n, !.nbf = nbf,
                        !.dir = "dir", !.key = key, !.existed = ex, !.disk0 = disk]
       IN IF ex
          THEN /\ \E e \in np_load_excs(file) :
                    LET raised == IF e # "none" THEN e
                                  ELSE IF UnpackLegacyFits(file.elems) THEN "none"
                                  ELSE "ValueError"
                    IN last' = [rec EXCEPT
                                  !.tried = <<"legacy">>,
                                  !.outcome = IF raised = "none" THEN "ok" ELSE raised,
                                  !.ret = IF raised = "none" THEN UnpackLegacy(file.elems)
                                          ELSE NoBundle,
                                  !.disk1 = disk]
               /\ UNCHANGED disk
          ELSE LET r == LegacyGenerate(n, nbf)
               IN IF r.exc # "none"
                  THEN /\ last' = [rec EXCEPT !.synth = 1, !.outcome = r.exc, !.disk1 = disk]
                       /\ UNCHANGED disk
                  ELSE LET lr == get_left_right_matrices(r.M, r.Mc)
                           b  == [M |-> r.M, Mc |-> r.Mc,
                                  M_left |-> lr.M_left, M_right |-> lr.M_right]
                       IN /\ disk' = [disk EXCEPT ![key] = Npy(LegacySaveTuple(b))]
                          /\ last' = [rec EXCEPT !.synth = 1, !.built = 1, !.outcome = "ok",
                                          !.ret = b, !.disk1 = disk']
    /\ UNCHANGED <<pc, frame>>
    /\ UNCHANGED <<genVars, trVars, serVars, parVars>>

GetStep(p) ==
    \/ \E n \in Sizes, a \in NbfArgs, d \in Dirs : Get_Call(p, n, a, d)
    \/ Get_Load(p)
    \/ Get_LoadLegacy(p)
    \/ Get_Generate(p)
    \/ Get_SaveOpen(p)
    \/ Get_SaveWrite(p)

Init ==
    /\ CacheInit /\ gen = GenIdleLocals /\ heap = <<>> /\ tr = TrIdleLocals
    /\ ser = SerIdle /\ par = ParIdle

\* One process calls get_basis_sets_cached again and again; between its calls
\* the legacy program may run on the same directory.
Next ==
    \/ GetStep("p1")
    \/ \E n0 \in Sizes, nbf \in 1..MaxNbf : LegacyInit(n0, nbf)

Spec == Init /\ [][Next]_vars

-----------------------------------------------------------------------------
(* Properties of the cache, stated on the call that completed last *)

LastIsGet == last.op = "get"
\* the file under the call's name, as the call found it
FileFound == last.disk0[last.key]
\* storage_location is None or no file exists at the path
Miss == last.dir = "None" \/ FileFound.kind = "absent"
Returned == last.outcome = "ok"
IsCurrentFormat(file) == file.kind = "npy" /\ Len(file.elems) = 5
IsLegacyFormat(file) == file.kind = "npy" /\ Len(file.elems) = 4
\* the bundle b, in the current format
CurrentFileOf(b) == Npy(<<b.M, b.Mc, b.M_left, b.M_right, VersionTag>>)
\* (n, nbf) passes the checks of the synthesizer and has a column to fill
SynthesizerAccepts(n, nbf) == n % 2 = 1 /\ nbf <= n \div 2 /\ nbf >= 1

\* C1 as stated: the synthesizer and the operator builder are both invoked
\* exactly when storage_location is None or no file exists under the name, and
\* a cache hit invokes neither and writes nothing.
C1_AsStated ==
    LastIsGet =>
        /\ (last.synth >= 1 /\ last.built >= 1) <=> Miss
        /\ (~Miss /\ Returned) =>
               last.synth = 0 /\ last.built = 0 /\ last.disk1 = last.disk0

\* C1, amended: the synthesizer is invoked (once) exactly when storage_location
\* is None or no file exists under the name; the operator builder is invoked
\* (once) exactly when, in addition, the synthesizer returned without an error;
\* a cache hit invokes neither and leaves the directory as it was.
C1_SynthesisIffMiss ==
    LastIsGet =>
        /\ last.synth = (IF Miss THEN 1 ELSE 0)
        /\ last.built = (IF Miss /\ SynthesizerAccepts(last.n, last.nbf) THEN 1 ELSE 0)
        /\ (~Miss /\ Returned) =>
               last.synth = 0 /\ last.built = 0 /\ last.disk1 = last.disk0

\* C1's case: a call found a file under its name and returned its bundle.
C1_Witness ==
    /\ LastIsGet /\ ~Miss /\ Returned
    /\ last.ret.M # None

\* C2: of two successive calls with the same (n, nbf) and directory, the first
\* finding no file and returning, the first invoked the synthesizer once and
\* left the bundle it returned in the current format; the second loaded that
\* file with the current decoder, invoked no synthesizer and returned the
\* same four matrices, field by field.
C2_SecondCallLoadsWhatFirstSaved ==
    (LastIsGet /\ last.prevSame # <<>>) =>
        LET q == last.prevSame[1]
        IN (q.dir = "dir" /\ q.disk0[q.key].kind = "absent" /\ q.outcome = "ok") =>
              /\ q.synth = 1 /\ last.synth = 0 /\ last.built = 0
              /\ q.disk1[q.key] = CurrentFileOf(q.ret)
              /\ last.disk0 = q.disk1 /\ last.disk1 = q.disk1
              /\ last.tried = <<"current">>
              /\ Returned
              /\ last.ret.M = q.ret.M /\ last.ret.Mc = q.ret.Mc
              /\ last.ret.M_left = q.ret.M_left /\ last.ret.M_right = q.ret.M_right
              /\ last.ret.M.name = "M" /\ last.ret.Mc.name = "Mc"
              /\ last.ret.M_left.name = "M_left" /\ last.ret.M_right.name = "M_right"

\* C2's case: the second of two such calls has returned.
C2_Witness ==
    /\ LastIsGet /\ last.prevSame # <<>> /\ Returned
    /\ last.prevSame[1].dir = "dir"
    /\ last.prevSame[1].disk0[last.key].kind = "absent"
    /\ last.prevSame[1].outcome = "ok"
    /\ SynthesizerAccepts(last.n, last.nbf)

\* C3: a call that finds a file of the legacy module, the four objects
\* (left, right, M, Mc), returns without synthesizing, the first object as
\* M_left, the second as M_right, the third as M and the fourth as Mc, each
\* the matrix the legacy module computed under that name.
C3_LegacyFileMapped ==
    (LastIsGet /\ ~Miss /\ IsLegacyFormat(FileFound)) =>
        /\ Returned
        /\ last.synth = 0 /\ last.built = 0 /\ last.disk1 = last.disk0
        /\ last.ret.M_left = FileFound.elems[1] /\ last.ret.M_right = FileFound.elems[2]
        /\ last.ret.M = FileFound.elems[3] /\ last.ret.Mc = FileFound.elems[4]
        /\ last.ret.M.name = "M" /\ last.ret.Mc.name = "Mc"
        /\ last.ret.M_left.name = "M_left" /\ last.ret.M_right.name = "M_right"

\* C3's case: a call has loaded a file the legacy module wrote.
C3_Witness ==
    /\ LastIsGet /\ ~Miss /\ IsLegacyFormat(FileFound) /\ Returned
    /\ last.tried = <<"current", "legacy">>

\* what the current decoder does with the file found
CurrentRaisesValueError ==
    FileFound.kind = "badheader" \/ (FileFound.kind = "npy" /\ Len(FileFound.elems) # 5)
CurrentRaisesOther == FileFound.kind = "unreadable"
BothDecodersFail == ~IsCurrentFormat(FileFound) /\ ~IsLegacyFormat(FileFound)

\* C4 as stated: with a file under the name, the current decoder is tried
\* first, and an error reaches the caller only after the legacy decoder was
\* tried as well.
C4_AsStated ==
    (LastIsGet /\ ~Miss) =>
        /\ last.tried # <<>> /\ last.tried[1] = "current"
        /\ ~Returned => last.tried = <<"current", "legacy">>

\* C4, amended: with a file under the name, the current decoder is tried
\* first; the legacy decoder is tried exactly when the current one ended with
\* a ValueError; any other failure of the current load goes to the caller at
\* once; an error reaches the caller only if the current decoder failed and
\* the legacy decoder failed too or was not tried.
C4_LegacyTriedOnValueErrorOnly ==
    (LastIsGet /\ ~Miss) =>
        /\ last.tried # <<>> /\ last.tried[1] = "current"
        /\ last.tried = (IF CurrentRaisesValueError THEN <<"current", "legacy">>
                         ELSE <<"current">>)
        /\ CurrentRaisesOther => last.outcome = "IOError"
        /\ ~Returned <=> BothDecodersFail
        /\ last.synth = 0

\* C4's case: both decoders were tried on a file and both failed.
C4_Witness ==
    /\ LastIsGet /\ ~Miss /\ ~Returned
    /\ last.tried = <<"current", "legacy">>

\* C5 as stated: a file that neither decoder reads makes the call synthesize,
\* return the new bundle and overwrite the file in the current format.
C5_AsStated ==
    (LastIsGet /\ ~Miss /\ BothDecodersFail) =>
        /\ Returned /\ last.synth = 1
        /\ last.disk1[last.key] = CurrentFileOf(last.ret)

\* C5, amended: a file that neither decoder reads makes the call end with the
\* load error (ValueError or IOError); nothing is synthesized, no bundle is
\* returned and the file stays as it was.
C5_CorruptFilePropagates ==
    (LastIsGet /\ ~Miss /\ BothDecodersFail) =>
        /\ last.outcome \in {"ValueError", "IOError"}
        /\ last.synth = 0 /\ last.built = 0
        /\ last.ret = NoBundle
        /\ last.disk1 = last.disk0

\* C5's case: a call has met a file that neither decoder reads.
C5_Witness ==
    /\ LastIsGet /\ ~Miss /\ BothDecodersFail
    /\ FileFound.kind = "npy" /\ last.outcome = "ValueError"

\* C8: a call with a directory and no file under its name whose synthesis or
\* operator construction fails ends with that error, returns no bundle and
\* leaves the directory as it was, the name still without a file; a rejected
\* (n, nbf) always ends so; and a call for the same name right after it finds
\* no file again and synthesizes again.
C8_FailedSynthesisWritesNothing ==
    /\ (LastIsGet /\ last.dir = "dir" /\ Miss /\ ~SynthesizerAccepts(last.n, last.nbf)) =>
          ~Returned
    /\ (LastIsGet /\ last.dir = "dir" /\ Miss /\ ~Returned) =>
          /\ last.outcome \in {"ValueError", "IndexError", "LinAlgError"}
          /\ last.synth = 1
          /\ last.ret = NoBundle
          /\ last.disk1 = last.disk0
          /\ last.disk1[last.key].kind = "absent"
    /\ (LastIsGet /\ last.prevSame # <<>>) =>
          LET q == last.prevSame[1]
          IN (q.dir = "dir" /\ q.disk0[q.key].kind = "absent" /\ q.outcome # "ok") =>
                Miss /\ last.synth = 1

\* C8's case: a call after a failed one for the same name has run.
C8_Witness ==
    /\ LastIsGet /\ last.prevSame # <<>> /\ last.dir = "dir"
    /\ last.prevSame[1].disk0[last.key].kind = "absent"
    /\ last.prevSame[1].outcome = "ValueError"
    /\ last.outcome = "ValueError"

-----------------------------------------------------------------------------
(* generate_basis_sets, statement by statement.  Matrices are sequences of  *)
(* rows; row i and column j here are row i-1 and column j-1 of the arrays. *)
(* An entry is the expression the code assigns to it.                      *)

MAX_BASIS_SET_OFFSET == 4000

Entry(t, k, l, lo, hi, src) == [t |-> t, k |-> k, l |-> l, lo |-> lo, hi |-> hi, src |-> src]
\* an entry of np.zeros
Zero == Entry("zero", 0, 0, 0, 0, <<>>)
\* np.zeros((n, nbf))
Zeros(n, nbf) == [i \in 1..n |-> [j \in 1..nbf |-> Zero]]

Abs(x) == IF x < 0 THEN -x ELSE x

\* delta[k] = fmax(k*32 - MAX_BASIS_SET_OFFSET, MAX_BASIS_SET_OFFSET)
delta(k) == Max(k * 32 - MAX_BASIS_SET_OFFSET, MAX_BASIS_SET_OFFSET)
\* p = np.arange(max(1, l2 - delta[k]), min(k2 - 1, l2 + delta[k]) + 1)
PLo(k, l) == Max(1, l * l - delta(k))
\* (the series let run up to k2)
PHi_uptoK2(k, l) == Min(k * k, l * l + delta(k))
PHi(k, l) == Min(k * k - 1, l * l + delta(k))

GenIdle == gen = GenIdleLocals

GenSizes == 1..GenMaxN

\* generate_basis_sets(n, nbf) is called
Gen_Call(n, a) ==
    /\ gen.pc \in {"idle", "raised", "returned"}
    /\ gen' = [GenIdleLocals EXCEPT !.pc = "check_odd", !.n = n, !.a = a]
    /\ UNCHANGED <<cacheVars, trVars, serVars, parVars>>

\* if n % 2 == 0: raise ValueError
Gen_CheckOdd ==
    /\ gen.pc = "check_odd"
    /\ gen' = IF GenRejectsEven(gen.n)
              THEN [gen EXCEPT !.pc = "raised", !.exc = "ValueError"]
              ELSE [gen EXCEPT !.pc = "nbf_default"]
    /\ UNCHANGED <<cacheVars, trVars, serVars, parVars>>

\* nbf = _nbf_default(n, nbf)
Gen_NbfDefault ==
    /\ gen.pc = "nbf_default"
    /\ gen' = [gen EXCEPT !.pc = "check_nbf", !.nbf = nbf_default(gen.n, gen.a)]
    /\ UNCHANGED <<cacheVars, trVars, serVars, parVars>>

\* if n//2 < nbf: raise ValueError
Gen_CheckNbf ==
    /\ gen.pc = "check_nbf"
    /\ gen' = IF GenRejectsNbf(gen.n, gen.nbf)
              THEN [gen EXCEPT !.pc = "raised", !.exc = "ValueError"]
              ELSE [gen EXCEPT !.pc = "alloc"]
    /\ UNCHANGED <<cacheVars, trVars, serVars, parVars>>

\* Rm = n//2 + 1; M = np.zeros((n, nbf)); Mc = np.zeros((n, nbf))
Gen_Alloc ==
    /\ gen.pc = "alloc"
    /\ gen' = [gen EXCEPT !.pc = "col0", !.Rm = gen.n \div 2 + 1, !.alloc = TRUE,
                          !.M = Zeros(gen.n, gen.nbf), !.Mc = Zeros(gen.n, gen.nbf)]
    /\ UNCHANGED <<cacheVars, trVars, serVars, parVars>>

\* M[:,0] = 2*np.exp(-R2); Mc[:,0] = np.exp(-R2), R2 = (I - Rm)**2: IndexError
\* when the matrices have no column.  Then `for k in range(1, nbf)` starts.
Gen_Col0 ==
    /\ gen.pc = "col0"
    /\ gen' = IF gen.nbf = 0
              THEN [gen EXCEPT !.pc = "raised", !.exc = "IndexError"]
              ELSE [gen EXCEPT
                      !.M = [i \in 1..gen.n |->
                               [@[i] EXCEPT ![1] = Entry("2exp", 0, Abs(i - gen.Rm), 0, 0, <<>>)]],
                      !.Mc = [i \in 1..gen.n |->
                               [@[i] EXCEPT ![1] = Entry("exp", 0, Abs(i - gen.Rm), 0, 0, <<>>)]],
                      !.k = 1,
                      !.pc = IF 1 < gen.nbf THEN "column" ELSE "return"]
    /\ UNCHANGED <<cacheVars, trVars, serVars, parVars>>

\* the head of the loop over k: angn; M[Rm-1, k] = 2*angn; the loop over l starts
Gen_ColumnHead ==
    /\ gen.pc = "column"
    /\ gen' = [gen EXCEPT
                 !.M[gen.Rm][gen.k + 1] = Entry("2angn", gen.k, 0, 0, 0, <<>>),
                 !.l = 1,
                 !.pc = IF 1 <= gen.n - gen.Rm THEN "entry"
                        ELSE IF gen.k + 1 < gen.nbf THEN "column" ELSE "return",
                 !.k = IF 1 <= gen.n - gen.Rm THEN gen.k ELSE gen.k + 1]
    /\ UNCHANGED <<cacheVars, trVars, serVars, parVars>>

\* the body of the loop over l: val to Mc[l-1+Rm, k] and Mc[Rm-l-1, k];
\* aux = 2*(val + angn*Mc[l+Rm-1, 0] + the series over p) to M[l+Rm-1, k]
\* and M[Rm-l-1, k]
Gen_Entry ==
    /\ gen.pc = "entry"
    /\ LET k   == gen.k
           l   == gen.l
           val == Entry("val", k, l, 0, 0, <<>>)
           Mc1 == [gen.Mc EXCEPT ![gen.Rm + l][k + 1] = val, ![gen.Rm - l][k + 1] = val]
           aux == Entry("aux", k, l, PLo(k, l), PHi(k, l), <<Mc1[gen.Rm + l][1]>>)
           M1  == [gen.M EXCEPT ![gen.Rm + l][k + 1] = aux, ![gen.Rm - l][k + 1] = aux]
           lastL == l + 1 > gen.n - gen.Rm
       IN gen' = [gen EXCEPT
                    !.M = M1, !.Mc = Mc1,
                    !.l = IF lastL THEN 0 ELSE l + 1,
                    !.k = IF lastL THEN k + 1 ELSE k,
                    !.pc = IF ~lastL THEN "entry"
                           ELSE IF k + 1 < gen.nbf THEN "column" ELSE "return"]
    /\ UNCHANGED <<cacheVars, trVars, serVars, parVars>>

\* return M, Mc
Gen_Return ==
    /\ gen.pc = "return"
    /\ gen' = [gen EXCEPT !.pc = "returned"]
    /\ UNCHANGED <<cacheVars, trVars, serVars, parVars>>

GenInit ==
    /\ disk = EmptyDisk
    /\ pc = [p \in Procs |-> "idle"]
    /\ frame = [p \in Procs |-> IdleFrame]
    /\ last = NoOp
    /\ GenIdle
    /\ heap = <<>> /\ tr = TrIdleLocals
    /\ ser = SerIdle /\ par = ParIdle

GenNext ==
    \/ \E n \in GenSizes, a \in NbfArgs : Gen_Call(n, a)
    \/ Gen_CheckOdd
    \/ Gen_NbfDefault
    \/ Gen_CheckNbf
    \/ Gen_Alloc
    \/ Gen_Col0
    \/ Gen_ColumnHead
    \/ Gen_Entry
    \/ Gen_Return

SpecGen == GenInit /\ [][GenNext]_vars

\* the checks of the synthesizer, on what the caller passed
RejectedConfig == gen.n % 2 = 0 \/ (~gen.a.auto /\ gen.a.v > gen.n \div 2)
\* the shape of a matrix: rows, and columns of every row
HasShape(A, rows, cols) == Len(A) = rows /\ \A i \in 1..rows : Len(A[i]) = cols

\* C6: a call of the synthesizer with n even or nbf > n//2 never gets past
\* its two checks: it allocates no matrix and computes no entry, and it ends
\* only with ValueError; a call that gets to allocate has n odd and
\* nbf <= n//2, and its matrices have exactly n rows and as many columns as
\* the caller asked for (n is not rounded, nbf is not cut down to n//2).
C6_RejectedBeforeAllocation ==
    gen.pc # "idle" =>
        /\ RejectedConfig =>
              /\ gen.pc \in {"check_odd", "nbf_default", "check_nbf", "raised"}
              /\ ~gen.alloc /\ gen.M = <<>> /\ gen.Mc = <<>>
              /\ gen.pc = "raised" => gen.exc = "ValueError"
        /\ (gen.alloc \/ gen.pc = "returned") =>
              /\ gen.n % 2 = 1
              /\ gen.nbf = (IF gen.a.auto THEN gen.n \div 2 ELSE gen.a.v)
              /\ gen.nbf <= gen.n \div 2
              /\ HasShape(gen.M, gen.n, gen.nbf) /\ HasShape(gen.Mc, gen.n, gen.nbf)

\* C6's case: an odd n with nbf > n//2 was rejected.
C6_Witness ==
    /\ gen.pc = "raised" /\ gen.exc = "ValueError"
    /\ gen.n % 2 = 1 /\ ~gen.a.auto /\ gen.a.v > gen.n \div 2

-----------------------------------------------------------------------------
(* basex_transform.  An array is a sequence of rows of numbers; a number is *)
(* a fraction <<p, q>> in lowest terms, q > 0, so that MAGIC_NUMBER/dr is   *)
(* exact.  Arrays live on a heap: .dot() allocates its result, IM *= x      *)
(* writes into the array IM refers to.                                     *)

\* MAGIC_NUMBER = 8.053 = MAGIC_NUM / MAGIC_DEN
MAGIC_NUM == 8053
MAGIC_DEN == 1000

RECURSIVE GCD(_, _)
GCD(x, y) == IF y = 0 THEN x ELSE GCD(y, x % y)

\* the fraction p/q (q # 0) in lowest terms
Frac(p, q) ==
    LET sp == IF q < 0 THEN -p ELSE p
        sq == Abs(q)
        g  == GCD(Abs(sp), sq)
    IN <<sp \div g, sq \div g>>
FAdd(x, y) == Frac(x[1] * y[2] + y[1] * x[2], x[2] * y[2])
FMul(x, y) == Frac(x[1] * y[1], x[2] * y[2])
FZero == <<0, 1>>

Rows(A) == Len(A)
Cols(A) == Len(A[1])

RECURSIVE DotSum(_, _, _, _, _)
\* sum over k = 1..m of A[i][k] * B[k][j]
DotSum(A, B, i, j, m) ==
    IF m = 0 THEN FZero ELSE FAdd(DotSum(A, B, i, j, m - 1), FMul(A[i][m], B[m][j]))

\* A.dot(B)
Dot(A, B) == [i \in 1..Rows(A) |-> [j \in 1..Cols(B) |-> DotSum(A, B, i, j, Rows(B))]]
\* A.T
Transpose(A) == [j \in 1..Cols(A) |-> [i \in 1..Rows(A) |-> A[i][j]]]

\* (an entry shifted instead of scaled)
ScaleEntry_add(x, f) == FAdd(x, f)
\* one entry of IM *= f
ScaleEntry(x, f) == FMul(x, f)
\* IM * f, entry by entry
Scaled(A, f) == [i \in 1..Rows(A) |-> [j \in 1..Cols(A) |-> ScaleEntry(A[i][j], f)]]

\* (the scaling written into the image)
ScaleTarget_rawdata(t) == t.rawdata
\* the array that `IM *= MAGIC_NUMBER/dr` writes into
ScaleTarget(t) == t.IM

\* An image: v at pixel (i, j), w at every other pixel.
Image(i, j, v, w) ==
    [r \in 1..TSize |-> [c \in 1..TSize |-> IF r = i /\ c = j THEN <<v, 1>> ELSE <<w, 1>>]]
Images == {Image(i, j, v, w) : i \in 1..TSize, j \in 1..TSize, v \in 0..MaxPix, w \in 0..MaxPix}
\* a * X, a new array
TimesScalar(a, X) == [r \in 1..Rows(X) |-> [c \in 1..Cols(X) |-> FMul(<<a, 1>>, X[r][c])]]

\* A matrix of a bundle: entries -1, 0, 1 that depend on the place and on s.
BundleMat(rows, cols, s) ==
    [i \in 1..rows |-> [j \in 1..cols |-> <<((i + 2 * j + s) % 3) - 1, 1>>]]
\* The bundle number s: M, Mc and M_right are n x nbf, M_left is nbf x n.
Bundle(s) ==
    [M |-> BundleMat(TSize, TNbf, s), Mc |-> BundleMat(TSize, TNbf, s + 1),
     M_left |-> BundleMat(TNbf, TSize, s + 2), M_right |-> BundleMat(TSize, TNbf, s)]
Bundles == {Bundle(s) : s \in 0..MaxSeed}
DrValues == -1..MaxDr
Scalars == -1..MaxPix

\* basex_transform(rawdata, M, Mc, M_left, M_right, dr) is called on five
\* arrays of the caller.
Tr_Call(X, b, dr) ==
    /\ tr.pc = "idle"
    /\ heap' = <<X, b.M, b.Mc, b.M_left, b.M_right>>
    /\ tr' = [TrIdleLocals EXCEPT !.pc = "Ci", !.call = 1, !.rawdata = 1, !.M = 2,
                  !.Mc = 3, !.M_left = 4, !.M_right = 5, !.dr = dr, !.snap = heap']
    /\ UNCHANGED <<cacheVars, genVars, serVars, parVars>>

\* Ci = M_left.dot(rawdata).dot(M_right)
Tr_Ci ==
    /\ tr.pc = "Ci"
    /\ LET t1 == Dot(heap[tr.M_left], heap[tr.rawdata])
           t2 == Dot(t1, heap[tr.M_right])
       IN /\ heap' = heap \o <<t1, t2>>
          /\ tr' = [tr EXCEPT !.pc = "IM", !.Ci = Len(heap) + 2]
    /\ UNCHANGED <<cacheVars, genVars, serVars, parVars>>

\* IM = Mc.dot(Ci).dot(Mc.T)
Tr_IM ==
    /\ tr.pc = "IM"
    /\ LET t1 == Dot(heap[tr.Mc], heap[tr.Ci])
           t2 == Dot(t1, Transpose(heap[tr.Mc]))
       IN /\ heap' = heap \o <<t1, t2>>
          /\ tr' = [tr EXCEPT !.pc = "scale", !.IM = Len(heap) + 2, !.unscaled = t2]
    /\ UNCHANGED <<cacheVars, genVars, serVars, parVars>>

\* IM *= MAGIC_NUMBER/dr: ZeroDivisionError for dr = 0
Tr_Scale ==
    /\ tr.pc = "scale"
    /\ IF tr.dr = 0
       THEN /\ tr' = [tr EXCEPT !.pc = "raised", !.exc = "ZeroDivisionError"]
            /\ UNCHANGED heap
       ELSE LET f == Frac(MAGIC_NUM, MAGIC_DEN * tr.dr)
                w == ScaleTarget(tr)
            IN /\ heap' = [heap EXCEPT ![w] = Scaled(heap[tr.IM], f)]
               /\ tr' = [tr EXCEPT !.pc = "return"]
    /\ UNCHANGED <<cacheVars, genVars, serVars, parVars>>

\* return IM
Tr_Return ==
    /\ tr.pc = "return"
    /\ tr' = [tr EXCEPT !.pc = "returned", !.ret = tr.IM]
    /\ UNCHANGED heap
    /\ UNCHANGED <<cacheVars, genVars, serVars, parVars>>

\* The caller, after a call that returned: it makes a * rawdata, a new array,
\* and calls basex_transform on it with the same bundle and dr.
Tr_CallScaled(a) ==
    /\ tr.pc = "returned" /\ tr.call = 1
    /\ heap' = Append(heap, TimesScalar(a, heap[tr.rawdata]))
    /\ tr' = [tr EXCEPT !.pc = "Ci", !.call = 2, !.rawdata = Len(heap) + 1,
                        !.Ci = 0, !.IM = 0, !.ret = 0, !.snap = heap',
                        !.unscaled = <<>>, !.a = a, !.first = heap[tr.ret]]
    /\ UNCHANGED <<cacheVars, genVars, serVars, parVars>>

TrInit ==
    /\ disk = EmptyDisk
    /\ pc = [p \in Procs |-> "idle"]
    /\ frame = [p \in Procs |-> IdleFrame]
    /\ last = NoOp
    /\ GenIdle
    /\ heap = <<>> /\ tr = TrIdleLocals
    /\ ser = SerIdle /\ par = ParIdle

TrNext ==
    \/ \E X \in Images, b \in Bundles, dr \in DrValues : Tr_Call(X, b, dr)
    \/ Tr_Ci
    \/ Tr_IM
    \/ Tr_Scale
    \/ Tr_Return
    \/ \E a \in Scalars : Tr_CallScaled(a)

SpecTransform == TrInit /\ [][TrNext]_vars

InputRefs == {tr.rawdata, tr.M, tr.Mc, tr.M_left, tr.M_right}
AllZero(A) == \A i \in 1..Rows(A) : \A j \in 1..Cols(A) : A[i][j] = FZero

\* C7 as stated: a call with dr <= 0 never returns a slice (it ends with an
\* error), and a call with dr > 0 returns Mc.Ci.Mc^T times MAGIC_NUMBER/dr.
C7_AsStated ==
    /\ tr.pc = "returned" => tr.dr > 0
    /\ tr.pc = "returned" =>
          \A i \in 1..TSize : \A j \in 1..TSize :
              heap[tr.ret][i][j] = FMul(tr.unscaled[i][j], Frac(MAGIC_NUM, MAGIC_DEN * tr.dr))

\* C9: while a call runs and after it, the image and the four matrices of
\* the bundle hold what they held when it was called; the array it returns
\* was allocated by the call and is none of the arrays passed in.
C9_InputsUnchanged ==
    tr.pc # "idle" =>
        /\ \A r \in 1..Len(tr.snap) : heap[r] = tr.snap[r]
        /\ tr.pc = "returned" => tr.ret > Len(tr.snap) /\ tr.ret \notin InputRefs
        /\ tr.IM # 0 => tr.IM > Len(tr.snap) /\ tr.IM \notin InputRefs

\* C9's case: a call has scaled its result in place, changing it, and returned.
C9_Witness ==
    /\ tr.pc = "returned"
    /\ heap[tr.ret] # tr.unscaled
    /\ ~AllZero(heap[tr.rawdata])

\* C10: for dr > 0, the call on a * X returns a times what the call on X
\* returned, entry by entry, and a call on an all-zero image returns an
\* all-zero slice.
C10_LinearInImage ==
    (tr.pc = "returned" /\ tr.dr > 0) =>
        /\ tr.call = 2 =>
              \A i \in 1..TSize : \A j \in 1..TSize :
                  heap[tr.ret][i][j] = FMul(<<tr.a, 1>>, tr.first[i][j])
        /\ AllZero(heap[tr.rawdata]) => AllZero(heap[tr.ret])

\* C10's case: the call on a * X, a not 0 or 1, returned a slice that is
\* not zero.
C10_Witness ==
    /\ tr.pc = "returned" /\ tr.dr > 0 /\ tr.call = 2
    /\ tr.a \notin {0, 1}
    /\ ~AllZero(heap[tr.ret])

-----------------------------------------------------------------------------
(* One pass of the body of `for l in range(1, n-Rm+1)` inside                *)
(* `for k in range(1, nbf)`, as a function of n, k and l: the rows and the  *)
(* column it writes (numbered from 0 as in the code), the entry it reads   *)
(* and the array p of the series.                                          *)

\* np.arange(a, b): the integers a, a+1, ..., b-1
Arange(a, b) == [start |-> a, stop |-> b]
ArangeLen(r) == Max(0, r.stop - r.start)
ArangeElems(r) == r.start..(r.stop - 1)

\* the odd n of the two smallest runs with nbf = n//2 that reach (k, l):
\* k < nbf and l <= n - Rm
SerSizes(k, l) == {2 * Max(k + 1, l) + 1, 2 * Max(k + 1, l) + 3}

\* the row of M[Rm-l-1, k] and Mc[Rm-l-1, k]
MirrorRow(Rm, l) == Rm - l - 1

Ser_Body(n, k, l) ==
    /\ ser.pc = "idle"
    /\ LET Rm == n \div 2 + 1
           p  == Arange(PLo(k, l), PHi(k, l) + 1)
       IN ser' = [pc |-> "done", n |-> n, Rm |-> Rm, k |-> k, l |-> l, p |-> p,
                  McRows |-> {l - 1 + Rm, MirrorRow(Rm, l)},
                  MRows |-> {l + Rm - 1, MirrorRow(Rm, l)},
                  col |-> k,
                  read |-> <<l + Rm - 1, 0>>,
                  aux |-> [factor |-> 2, closed |-> <<"val", "angn", <<l + Rm - 1, 0>>>>,
                           nterms |-> ArangeLen(p)]]
    /\ UNCHANGED <<cacheVars, genVars, trVars, parVars>>

SerInit ==
    /\ disk = EmptyDisk
    /\ pc = [p \in Procs |-> "idle"]
    /\ frame = [p \in Procs |-> IdleFrame]
    /\ last = NoOp
    /\ GenIdle
    /\ heap = <<>> /\ tr = TrIdleLocals
    /\ ser = SerIdle /\ par = ParIdle

SerNext ==
    /\ ser.pc = "idle"
    /\ \E k \in 1..SerMaxK, l \in 1..SerMaxL : \E n \in SerSizes(k, l) : Ser_Body(n, k, l)

SpecSeries == SerInit /\ [][SerNext]_vars

\* Delta(k) = max(32k - 4000, 4000), spelled out
HalfWidth(k) == IF 32 * k - 4000 > 4000 THEN 32 * k - 4000 ELSE 4000
\* q is an integer of [max(1, l^2 - Delta(k)), min(k^2 - 1, l^2 + Delta(k))]
InWindow(q, k, l) ==
    /\ 1 <= q /\ q <= k * k - 1
    /\ l * l - HalfWidth(k) <= q /\ q <= l * l + HalfWidth(k)

\* C12: in the pass for k and l, the array p of the series holds exactly the
\* integers of [max(1, l^2 - Delta(k)), min(k^2 - 1, l^2 + Delta(k))],
\* Delta(k) = max(32k - 4000, 4000): its first and last element are in the
\* window and their outer neighbours are not, so 1 <= p <= k^2 - 1; when no
\* integer is in the window (always for k = 1) p is empty and the series
\* has no term; and the value, 2 times (closed term + series), goes to the
\* rows centre + l and centre - l of column k of M, both inside the matrix.
C12_WindowAndMirroredWrite ==
    ser.pc = "done" =>
        LET k == ser.k
            l == ser.l
            centre == ser.n \div 2
        IN /\ ser.p.start < ser.p.stop =>
                 /\ InWindow(ser.p.start, k, l) /\ InWindow(ser.p.stop - 1, k, l)
                 /\ ~InWindow(ser.p.start - 1, k, l) /\ ~InWindow(ser.p.stop, k, l)
                 /\ ser.aux.nterms = ser.p.stop - ser.p.start
           /\ ser.p.start >= ser.p.stop =>
                 /\ \A q \in {1, k * k - 1, l * l - HalfWidth(k), l * l + HalfWidth(k)} :
                        ~InWindow(q, k, l)
                 /\ ser.aux.nterms = 0
           /\ k = 1 => ser.aux.nterms = 0
           /\ ser.aux.factor = 2
           /\ ser.MRows = {centre + l, centre - l}
           /\ ser.MRows \subseteq 0..(ser.n - 1)
           /\ ser.col = k

\* C12's case: a pass whose window is cut at both ends by the half-width
\* (l^2 - Delta(k) > 1 and l^2 + Delta(k) < k^2 - 1), with Delta(k) > 4000.
C12_Witness ==
    /\ ser.pc = "done"
    /\ HalfWidth(ser.k) > 4000
    /\ ser.p.start = ser.l * ser.l - HalfWidth(ser.k) /\ ser.p.start > 1
    /\ ser.p.stop - 1 = ser.l * ser.l + HalfWidth(ser.k)
    /\ ser.p.stop - 1 < ser.k * ser.k - 1

-----------------------------------------------------------------------------
(* The body of `for k in range(1, nbf)` run as one task per column k on    *)
(* shared M and Mc, the tasks interleaved pass by pass, after the lines    *)
(* before the loop (318-328) have run.  A sequential run of                *)
(* generate_basis_sets on the same n and nbf gives the matrices to compare *)
(* with.                                                                   *)

\* M and Mc after `M[:,0] = 2*np.exp(-R2); Mc[:,0] = np.exp(-R2)`
AfterCol0(n, nbf, Rm) ==
    [M  |-> [i \in 1..n |-> [j \in 1..nbf |->
                IF j = 1 THEN Entry("2exp", 0, Abs(i - Rm), 0, 0, <<>>) ELSE Zero]],
     Mc |-> [i \in 1..n |-> [j \in 1..nbf |->
                IF j = 1 THEN Entry("exp", 0, Abs(i - Rm), 0, 0, <<>>) ELSE Zero]]]

\* (the closed term taken from the column before)
AuxReadColumn_previous(k) == k - 1
\* the column of Mc that `aux = val + angn*Mc[l+Rm-1, 0]` reads
AuxReadColumn(k) == 0

\* The tasks start on the matrices of a call that has returned.
Par_Start ==
    /\ par.pc = "idle"
    /\ gen.pc = "returned"
    /\ LET Rm == gen.n \div 2 + 1
           A  == AfterCol0(gen.n, gen.nbf, Rm)
       IN par' = [pc |-> "running", n |-> gen.n, nbf |-> gen.nbf, Rm |-> Rm,
                  M |-> A.M, Mc |-> A.Mc,
                  at |-> [k \in 1..(gen.nbf - 1) |-> 0],
                  order |-> <<>>, reads |-> {}, writes |-> {},
                  seqM |-> gen.M, seqMc |-> gen.Mc]
    /\ UNCHANGED <<cacheVars, genVars, trVars, serVars>>

\* The task of column k takes its next step: angn and M[Rm-1, k] = 2*angn
\* first, then one pass of `for l in range(1, n-Rm+1)` at a time.
Par_Step(k) ==
    /\ par.pc = "running"
    /\ k \in DOMAIN par.at
    /\ par.at[k] <= par.n - par.Rm
    /\ LET l  == par.at[k]
           Rm == par.Rm
       IN IF l = 0
          THEN par' = [par EXCEPT
                         !.M[Rm][k + 1] = Entry("2angn", k, 0, 0, 0, <<>>),
                         !.writes = @ \cup {<<k, "M", Rm - 1, k>>},
                         !.order = Append(@, k),
                         !.at[k] = 1]
          ELSE LET val == Entry("val", k, l, 0, 0, <<>>)
                   Mc1 == [par.Mc EXCEPT ![Rm + l][k + 1] = val, ![Rm - l][k + 1] = val]
                   c   == AuxReadColumn(k)
                   aux == Entry("aux", k, l, PLo(k, l), PHi(k, l), <<Mc1[Rm + l][c + 1]>>)
                   M1  == [par.M EXCEPT ![Rm + l][k + 1] = aux, ![Rm - l][k + 1] = aux]
               IN par' = [par EXCEPT
                            !.M = M1, !.Mc = Mc1,
                            !.reads = @ \cup {<<k, "Mc", l + Rm - 1, c>>},
                            !.writes = @ \cup {<<k, "Mc", l - 1 + Rm, k>>,
                                               <<k, "Mc", Rm - l - 1, k>>,
                                               <<k, "M", l + Rm - 1, k>>,
                                               <<k, "M", Rm - l - 1, k>>},
                            !.order = Append(@, k),
                            !.at[k] = l + 1]
    /\ UNCHANGED <<cacheVars, genVars, trVars, serVars>>

\* the columns the loop over k can reach: 1 <= k < nbf <= n//2
ParColumns == 1..(GenMaxN \div 2 - 1)

ParNext ==
    \/ GenNext
    \/ Par_Start
    \/ \E k \in ParColumns : Par_Step(k)

SpecColumns == GenInit /\ [][ParNext]_vars

\* every task has run to its end
ParDone == par.pc = "running" /\ \A k \in DOMAIN par.at : par.at[k] > par.n - par.Rm

\* C13 as stated: a task reads no entry outside its own column, and the
\* tasks, in whatever order their steps were taken, leave the M and Mc of
\* the sequential loop.
C13_AsStated ==
    /\ \A r \in par.reads : r[4] = r[1]
    /\ ParDone => par.M = par.seqM /\ par.Mc = par.seqMc

\* C13: the task of column k >= 1 writes only column k, and reads, outside
\* its own column, only column 0 of Mc, which no task writes; the tasks, in
\* whatever order their steps were taken after column 0 was filled, leave
\* the M and Mc of the sequential loop.
C13_ColumnsIndependentGivenColumn0 ==
    /\ \A r \in par.reads : r[4] = r[1] \/ (r[2] = "Mc" /\ r[4] = 0)
    /\ \A w \in par.writes : w[4] = w[1] /\ w[4] >= 1
    /\ ParDone => par.M = par.seqM /\ par.Mc = par.seqMc

\* C13's case: two tasks ran to their end, the task of the second column
\* taking all its steps between two steps of the task of the first.
C13_Witness ==
    /\ ParDone
    /\ Len(par.at) >= 2
    /\ \E i \in 1..Len(par.order) :
          /\ par.order[i] = 1 /\ i + par.n - par.Rm + 2 <= Len(par.order)
          /\ \A j \in (i + 1)..(i + par.n - par.Rm + 1) : par.order[j] = 2
          /\ par.order[i + par.n - par.Rm + 2] = 1

-----------------------------------------------------------------------------
(* Two processes, each calling get_basis_sets_cached once, for the same    *)
(* (n, nbf) and the same directory, in which no file exists yet.  Their    *)
(* steps interleave freely: nothing in the code locks the file.            *)

\* process q has called: its call is under way or has ended
HasCalled(q) ==
    \/ pc[q] # "idle"
    \/ last.op = "get" /\ (last.proc = q \/ (last.other # <<>> /\ last.other[1].proc = q))
\* the file name of the call of q
CalledKey(q) == IF pc[q] # "idle" THEN frame[q].key ELSE last.key

Race_Call(p, n, a) ==
    /\ ~HasCalled(p)
    /\ \A q \in Procs \ {p} : HasCalled(q) => CalledKey(q) = basis_name(n, nbf_default(n, a))
    /\ Get_Call(p, n, a, "dir")

RaceInit ==
    /\ disk = EmptyDisk
    /\ pc = [p \in Procs |-> "idle"]
    /\ frame = [p \in Procs |-> IdleFrame]
    /\ last = NoOp
    /\ GenIdle
    /\ heap = <<>> /\ tr = TrIdleLocals
    /\ ser = SerIdle /\ par = ParIdle

RaceNext ==
    \/ \E p \in Procs, n \in Sizes, a \in NbfArgs : Race_Call(p, n, a)
    \/ \E p \in Procs : Get_Load(p)
    \/ \E p \in Procs : Get_LoadLegacy(p)
    \/ \E p \in Procs : Get_Generate(p)
    \/ \E p \in Procs : Get_SaveOpen(p)
    \/ \E p \in Procs : Get_SaveWrite(p)

SpecRace == RaceInit /\ [][RaceNext]_vars

\* both calls have ended
BothDone == last.op = "get" /\ last.other # <<>>
\* what the two callers got, in the order the calls ended
RaceResults == {last.other[1], [last EXCEPT !.prevSame = <<>>, !.other = <<>>]}
\* the bundle of (n, nbf)
BundleOf(n, nbf) ==
    [M |-> Mat("M", n, nbf), Mc |-> Mat("Mc", n, nbf),
     M_left |-> Mat("M_left", n, nbf), M_right |-> Mat("M_right", n, nbf)]
\* the file under the name of (n, nbf) holds the bundle of (n, nbf) in the
\* current format
HoldsCurrentBundle(n, nbf) ==
    /\ IsCurrentFormat(disk[<<n, nbf>>])
    /\ disk[<<n, nbf>>] = CurrentFileOf(BundleOf(n, nbf))

-----------------------------------------------------------------------------
(* The arguments of exp in generate_basis_sets.  log and gammaln are given *)
(* by integer bounds from below and from above, in thousandths (Unit), so  *)
(* that a bound from above on each argument of exp can be computed: exp    *)
(* of a double is finite exactly when its argument is below 709.78.        *)

Unit == 1000
\* math.exp raises OverflowError and np.exp returns inf above 709.78
ExpMaxArg == 709

CeilDiv(x, d) == (x + d - 1) \div d

\* log(i) - log(i-1) = 2*(t + t^3/3 + t^5/5 + ...), t = 1/(2i-1), in units of
\* 1/LnFine * 2: from below the first two terms, from above the first two
\* and t^5/(5*(1-t^2)) <= t^5/4 for the rest.
LnFine == 200000000
LnCoarsen == 100000
LnTop == 2 * NumMaxK * NumMaxK + 4
LnIncLo(i) ==
    IF i = 1 THEN 0
    ELSE LET d  == 2 * i - 1
             a1 == LnFine \div d
         IN a1 + ((a1 \div d) \div d) \div 3
LnIncHi(i) ==
    IF i = 1 THEN 0
    ELSE LET d  == 2 * i - 1
             c1 == CeilDiv(LnFine, d)
             c2 == CeilDiv(CeilDiv(c1, d), d)
         IN c1 + CeilDiv(c2, 3) + CeilDiv(CeilDiv(CeilDiv(c2, d), d), 4)

RECURSIVE RunningSums(_, _, _)
\* <<f[lo], f[lo] + f[lo+1], ..., f[lo] + ... + f[hi]>>
RunningSums(f, lo, hi) ==
    IF lo = hi THEN <<f[lo]>>
    ELSE LET mid == (lo + hi) \div 2
             L == RunningSums(f, lo, mid)
             R == RunningSums(f, mid + 1, hi)
             b == L[Len(L)]
         IN L \o [j \in 1..Len(R) |-> R[j] + b]

LnLoFine == RunningSums([i \in 1..LnTop |-> LnIncLo(i)], 1, LnTop)
LnHiFine == RunningSums([i \in 1..LnTop |-> LnIncHi(i)], 1, LnTop)
LnLoTab == <<>> \o [i \in 1..LnTop |-> LnLoFine[i] \div LnCoarsen]
LnHiTab == <<>> \o [i \in 1..LnTop |-> CeilDiv(LnHiFine[i], LnCoarsen)]
\* log(i) for an integer i >= 1, from below and from above
LnLo(i) == LnLoTab[i]
LnHi(i) == LnHiTab[i]

GammalnTop == NumMaxK * NumMaxK + 1
GammalnLoTab == RunningSums(LnLoTab, 1, GammalnTop)
GammalnHiTab == RunningSums(LnHiTab, 1, GammalnTop)
\* gammaln(m + 1) = log(1) + ... + log(m) for an integer m >= 0
GammalnLo(m) == IF m = 0 THEN 0 ELSE GammalnLoTab[m]
GammalnHi(m) == IF m = 0 THEN 0 ELSE GammalnHiTab[m]
GammalnHalfHiTab ==
    RunningSums([j \in 1..GammalnTop |-> LnHiTab[2 * j - 1] - LnLoTab[2]], 1, GammalnTop)
\* gammaln(m + 0.5) - gammaln_0o5 = log(1/2) + log(3/2) + ... + log(m - 1/2)
\* for an integer m >= 0, from above
GammalnHalfHi(m) == IF m = 0 THEN 0 ELSE GammalnHalfHiTab[m]

\* exp of minus infinity is 0: an argument that is minus infinity
MinusInf == -1000000000

\* the argument of exp in M[:,0] and Mc[:,0], for the rows Rm-1+l and Rm-1-l
Col0Arg(l) == -(l * l) * Unit
\* angn = exp(k2 - 2*k2*log(k) + gammaln(k2 + 0.5) - gammaln_0o5)
AngnArg(k) == Unit * k * k - 2 * k * k * LnLo(k) + GammalnHalfHi(k * k)
\* val = exp(k2 - l2 + 2*k2*log((1.0*l)/k))
ValArg(k, l) == Unit * (k * k - l * l) + 2 * k * k * (LnHi(l) - LnLo(k))
\* (k2*log_k2 added where it is subtracted)
SeriesArg_plusLogK2(k, l, p) ==
    Unit * (k * k - l * l) + k * k * LnHi(k * k) + p * LnHi(l * l)
    + GammalnHi(k * k) - GammalnLo(p)
    + GammalnHalfHi(k * k - p) - GammalnLo(k * k - p)
\* np.exp(k2 - l2 - k2*log_k2 + p*log_l2 + gammaln(k2+1) - gammaln(p+1)
\*        + gammaln(k2 - p + 0.5) - gammaln_0o5 - gammaln(k2 - p + 1))
\* for one p; gammaln is +inf at 0, -1, -2, ...
SeriesArg(k, l, p) ==
    IF p + 1 <= 0 \/ k * k - p + 1 <= 0 THEN MinusInf
    ELSE Unit * (k * k - l * l) - k * k * LnLo(k * k) + p * LnHi(l * l)
         + GammalnHi(k * k) - GammalnLo(p)
         + GammalnHalfHi(k * k - p) - GammalnLo(k * k - p)

\* One pass of the loop body for (k, l): the arguments of its calls of exp;
\* seriesArgs[i] is the argument for p[i-1].
Num_Body ==
    /\ ser.pc = "args"
    /\ LET k == ser.k
           l == ser.l
           p == Arange(PLo(k, l), PHi(k, l) + 1)
       IN ser' = [pc |-> "bounded", k |-> k, l |-> l, p |-> p,
                  col0Arg |-> Col0Arg(l),
                  angnArg |-> AngnArg(k),
                  valArg |-> ValArg(k, l),
                  seriesArgs |-> [i \in 1..ArangeLen(p) |-> SeriesArg(k, l, p.start + i - 1)]]
    /\ UNCHANGED <<cacheVars, genVars, trVars, parVars>>

NumInit ==
    /\ disk = EmptyDisk
    /\ pc = [p \in Procs |-> "idle"]
    /\ frame = [p \in Procs |-> IdleFrame]
    /\ last = NoOp
    /\ GenIdle
    /\ heap = <<>> /\ tr = TrIdleLocals
    /\ par = ParIdle
    /\ ser \in {[SerIdle EXCEPT !.pc = "args", !.k = k, !.l = l] :
                    k \in 1..NumMaxK, l \in 1..NumMaxL}

NumNext == Num_Body

SpecNumeric == NumInit /\ [][NumNext]_vars

\* exp of an argument that is at most a (in thousandths), times c >= 1, is
\* a finite double: a + log(c) <= 709
FiniteTimes(c, a) == a + LnHi(c) <= ExpMaxArg * Unit

\* C11: in every pass of the loop body, every argument of exp stays so far
\* below 709 that the entries written are finite doubles (no overflow to
\* Inf, so no NaN from Inf - Inf either): 2*exp(-R2) and exp(-R2) of column
\* 0, 2*angn, val, and aux = 2*(val + angn*Mc[., 0] + the series), whose
\* n+2 summands are each at most exp of the largest argument; this for
\* windows cut at l^2 - Delta(k) and l^2 + Delta(k) as for the others.
C11_EntriesFinite ==
    ser.pc = "bounded" =>
        LET n == ArangeLen(ser.p)
        IN /\ FiniteTimes(2, ser.col0Arg)
           /\ FiniteTimes(2, ser.angnArg)
           /\ FiniteTimes(2 * (n + 2), ser.valArg)
           /\ FiniteTimes(2 * (n + 2), ser.angnArg + ser.col0Arg)
           /\ Len(ser.seriesArgs) = n
           /\ \A i \in 1..n : FiniteTimes(2 * (n + 2), ser.seriesArgs[i])

\* C11's case: a pass whose series is cut at l^2 - Delta(k), the terms that
\* remain being no underflow (their arguments are real numbers).
C11_Witness ==
    /\ ser.pc = "bounded"
    /\ ser.p.start = ser.l * ser.l - delta(ser.k) /\ ser.p.start > 1
    /\ ser.p.start < ser.p.stop
    /\ \A i \in 1..Len(ser.seriesArgs) : ser.seriesArgs[i] > MinusInf

=============================================================================
